---- MODULE Spec2Model ----
(***************************************************************************)
(* Model of the functional test harness tests/test_driver.py:              *)
(* DeviceDriverTester.run_all_tests and the seven checks it sequences.     *)
(*                                                                         *)
(* The operating system is the environment: every external operation       *)
(* (run_command, os.path.exists, os.stat, open, read, write, close) picks  *)
(* its outcome from a small set.  Writes to standard output (print) are    *)
(* taken to succeed; the lines printed are kept in `out`.                  *)
(***************************************************************************)
EXTENDS Integers, Sequences, FiniteSets, TLC

\* ------------------------------------------------------------------ bounds
\* Largest number of bytes the device hands back to device.read(1024).
MaxReadLen == 1
\* Largest short byte count device.write reports (besides the full length).
MaxShortWrite == 0

\* ------------------------------------------------------- program constants
\* test_data of test_device_write: b"Hello, Device Driver Test!"
WriteData ==
    <<72, 101, 108, 108, 111, 44, 32, 68, 101, 118, 105, 99, 101, 32, 68,
      114, 105, 118, 101, 114, 32, 84, 101, 115, 116, 33>>
\* test_data of test_read_write_consistency: b"Consistency Test Data 123"
ConsistencyData ==
    <<67, 111, 110, 115, 105, 115, 116, 101, 110, 99, 121, 32, 84, 101,
      115, 116, 32, 68, 97, 116, 97, 32, 49, 50, 51>>

\* The list `tests` of run_all_tests, in its order: test_func.__name__.
FuncNames ==
    <<"test_module_load", "test_device_node_creation",
      "test_device_open_close", "test_device_read", "test_device_write",
      "test_read_write_consistency", "test_module_unload">>
\* The test_name each check stores its record under.
TestNames ==
    <<"module_load", "device_node_creation", "device_open_close",
      "device_read", "device_write", "read_write_consistency",
      "module_unload">>
NumTests == Len(FuncNames)

\* ----------------------------------------------------------- environment
\* What run_command returns: (returncode, stderr).  A timeout or a spawn
\* failure is (-1, text).
Completed(rc, err) == [rc |-> rc, err |-> err]
TimedOut == [rc |-> -1, err |-> "Command timed out"]
\* What subprocess.run does with the command: it exits with a status and
\* an error text, the timeout expires, or the shell cannot be spawned.
Exited(rc, err) == [kind |-> "exit", rc |-> rc, err |-> err]
SubprocessOutcomes ==
    {Exited(0, ""), Exited(1, "stderr"),
     [kind |-> "TimeoutExpired", rc |-> 0, err |-> ""],
     [kind |-> "Exception", rc |-> 0, err |-> "spawn failed"]}
\* Variant: the timeout is reported with the status of a success.
RunCommandTimeoutOk(o) ==
    IF o.kind = "exit" THEN Completed(o.rc, o.err)
    ELSE IF o.kind = "TimeoutExpired" THEN Completed(0, "Command timed out")
    ELSE Completed(-1, o.err)
\* Lines 50-62: the try of run_command and its two except clauses.
RunCommand(o) ==
    IF o.kind = "exit" THEN Completed(o.rc, o.err)
    ELSE IF o.kind = "TimeoutExpired" THEN TimedOut
    ELSE Completed(-1, o.err)
run_command == {RunCommand(o) : o \in SubprocessOutcomes}

\* Exceptions are (type, str(e)).
NoExc == [type |-> "none", msg |-> ""]
PermissionError == [type |-> "PermissionError", msg |-> "EACCES"]
FileNotFoundError == [type |-> "FileNotFoundError", msg |-> "ENOENT"]
\* What open() raises in check k: test_device_open_close has an except
\* clause for each of three kinds of error; in the other checks every error
\* but PermissionError takes the clause that IOErrors reach as well.
OpenErrors(k) ==
    IF k = 3
    THEN {PermissionError, FileNotFoundError, [type |-> "OSError", msg |-> "EBUSY"]}
    ELSE {PermissionError}
\* What read(), write() and close() raise.
IOErrors == {[type |-> "OSError", msg |-> "EIO"]}
\* What os.stat raises when the node went away after os.path.exists.
StatErrors == {FileNotFoundError}

\* One external operation of the current check and its outcome.
Op(op, rc, e, n, d) == [op |-> op, rc |-> rc, exc |-> e, n |-> n, data |-> d]
CmdOp(op, r) == Op(op, r.rc, NoExc, 0, <<r.err>>)
OkOp(op) == Op(op, 0, NoExc, 0, <<>>)
ErrOp(op, e) == Op(op, 0, e, 0, <<>>)
DataOp(op, d) == Op(op, 0, NoExc, Len(d), d)
CountOp(op, n) == Op(op, 0, NoExc, n, <<>>)
\* The outcome of opening or closing the device: NoExc, or what it raises.
OpenOutcomes(k) == {NoExc} \cup OpenErrors(k)
CloseOutcomes == {NoExc} \cup IOErrors
\* What os.stat reports for the device path, or raises.
StatKinds == {"chr", "other"}

\* ----------------------------------------------------------- test records
Msg(fmt, n, m, s, d) == [fmt |-> fmt, n |-> n, m |-> m, s |-> s, d |-> d]
Text(fmt) == Msg(fmt, 0, 0, "", <<>>)
TextS(fmt, s) == Msg(fmt, 0, 0, s, <<>>)
Record(name, status, message, score) ==
    [name |-> name, status |-> status, message |-> message, score |-> score]

\* self.test_results["tests"][name] = {...}: a dict keeps a key's position
\* when its value is replaced and appends a new key at the end
\* (SetTestFront is the variant that puts a new key first).
HasKey(t, name) == \E i \in 1..Len(t) : t[i].name = name
SetTestFront(t, rec) ==
    IF HasKey(t, rec.name)
    THEN [i \in 1..Len(t) |-> IF t[i].name = rec.name THEN rec ELSE t[i]]
    ELSE <<rec>> \o t
SetTest(t, rec) ==
    IF HasKey(t, rec.name)
    THEN [i \in 1..Len(t) |-> IF t[i].name = rec.name THEN rec ELSE t[i]]
    ELSE Append(t, rec)
GetTest(t, name) == t[CHOOSE i \in 1..Len(t) : t[i].name = name]

VARIABLES
    pc,         \* position in run_all_tests / the running check
    idx,        \* 1-based position of test_func in the list `tests`
    tests,      \* self.test_results["tests"], in insertion order
    summary,    \* self.test_results["summary"]
    out,        \* the lines printed so far
    exc,        \* the exception in flight, NoExc when none
    handles,    \* device file objects currently open
    modLoaded,  \* the kernel's module table holds the module
    cur,        \* outcomes of the external operations of the current check
    clean,      \* the checks whose operations all succeeded as specified
    denied,     \* the checks whose privileged operation was refused
    proc,       \* the process: the artifact, exit status, results file
    report,     \* generate_report.py: the results loaded and the scores
    analysis    \* compile_analyzer.py: the file_data being analysed

vars ==
    <<pc, idx, tests, summary, out, exc, handles, modLoaded, cur, clean,
      denied, proc, report, analysis>>

\* The two scoring scripts have not run.
NoReport == <<>>
NoAnalysis == <<>>

Line(k, tag) == [k |-> k, tag |-> tag]

\* The process at the start of main; the tester's fields hold what
\* DeviceDriverTester.__init__ gives them.  exit is -1 while the process
\* runs; file holds what was written to the results file.
Init ==
    /\ pc = "main"
    /\ idx = 1
    /\ tests = <<>>
    /\ summary = [total_tests |-> 0, passed |-> 0, failed |-> 0, score |-> 0]
    /\ out = <<>>
    /\ exc = NoExc
    /\ handles = 0
    /\ modLoaded \in BOOLEAN
    /\ cur = <<>>
    /\ clean = {}
    /\ denied = {}
    /\ \E a \in BOOLEAN : proc = [artifact |-> a, exit |-> -1, file |-> <<>>]
    /\ report = NoReport
    /\ analysis = NoAnalysis

\* Lines 386-408: main up to tester.run_all_tests(); sys.exit(1) when the
\* module path does not exist.
MainStart ==
    /\ pc = "main"
    /\ IF proc.artifact
       THEN /\ pc' = "loop"
            /\ UNCHANGED proc
       ELSE /\ pc' = "exit"
            /\ proc' = [proc EXCEPT !.exit = 1]
    /\ UNCHANGED <<idx, tests, summary, out, exc, handles, modLoaded, cur, clean, denied,
                   report, analysis>>

\* A check function is entered: test_func() with its first print.
Enter(k) ==
    /\ pc = "loop"
    /\ idx = k
    /\ k <= NumTests

\* Variant: only a query that ran and found nothing reads as "not loaded".
QueryDidNotDeny(r) == r.rc <= 0
\* is_module_loaded: returncode == 0
is_module_loaded(r) == r.rc = 0

\* ------------------------------------------------------ test_module_load
LoadPassRecord == Record(TestNames[1], "PASS", Text("Module loaded successfully"), 5)
LoadNotFoundRecord ==
    Record(TestNames[1], "FAIL", Text("Module not found in lsmod after insmod"), 0)
InsmodFailedRecord(r) ==
    Record(TestNames[1], "FAIL", TextS("insmod failed: ", r.err), 0)

\* Lines 72-76: print, is_module_loaded(), and whether rmmod is to be run.
LoadStart ==
    /\ Enter(1)
    /\ \E q \in run_command :
        /\ cur' = <<CmdOp("lsmod", q)>>
        /\ pc' = IF is_module_loaded(q) THEN "load_cleanup" ELSE "load_insmod"
    /\ out' = Append(out, Line(1, "start"))
    /\ UNCHANGED <<idx, tests, summary, exc, handles, modLoaded, clean, denied, proc, report, analysis>>

\* Variant: a failed cleanup ends the check before the loader is invoked.
LoadCleanupAbort ==
    /\ pc = "load_cleanup"
    /\ \E r \in run_command :
        /\ cur' = Append(cur, CmdOp("rmmod", r))
        /\ modLoaded' = IF r.rc = 0 THEN FALSE ELSE modLoaded
        /\ IF r.rc = 0
           THEN /\ pc' = "load_insmod"
                /\ UNCHANGED <<tests, out>>
           ELSE /\ tests' = SetTest(tests, InsmodFailedRecord(r))
                /\ out' = Append(out, Line(1, "FAIL"))
                /\ pc' = "ret"
    /\ UNCHANGED <<idx, summary, exc, handles, clean, denied, proc, report, analysis>>
\* Line 76: sudo rmmod, result dropped.
LoadCleanup ==
    /\ pc = "load_cleanup"
    /\ \E r \in run_command :
        /\ cur' = Append(cur, CmdOp("rmmod", r))
        /\ modLoaded' = IF r.rc = 0 THEN FALSE ELSE modLoaded
    /\ pc' = "load_insmod"
    /\ UNCHANGED <<idx, tests, summary, out, exc, handles, clean, denied, proc, report, analysis>>

\* Variant: a failed insmod is tried a second time.
LoadInsmodRetry ==
    /\ pc = "load_insmod"
    /\ \E r \in run_command :
        /\ cur' = Append(cur, CmdOp("insmod", r))
        /\ modLoaded' = IF r.rc = 0 THEN TRUE ELSE modLoaded
        /\ IF r.rc = 0
           THEN /\ pc' = "load_verify"
                /\ UNCHANGED <<tests, out>>
           ELSE IF cur[Len(cur)].op # "insmod"
           THEN /\ pc' = "load_insmod"
                /\ UNCHANGED <<tests, out>>
           ELSE /\ tests' = SetTest(tests, InsmodFailedRecord(r))
                /\ out' = Append(out, Line(1, "FAIL"))
                /\ pc' = "ret"
    /\ UNCHANGED <<idx, summary, exc, handles, clean, denied, proc, report, analysis>>
\* Lines 79-81 and 97-105: sudo insmod; a non-zero status is FAIL.
LoadInsmod ==
    /\ pc = "load_insmod"
    /\ \E r \in run_command :
        /\ cur' = Append(cur, CmdOp("insmod", r))
        /\ modLoaded' = IF r.rc = 0 THEN TRUE ELSE modLoaded
        /\ IF r.rc = 0
           THEN /\ pc' = "load_verify"
                /\ UNCHANGED <<tests, out>>
           ELSE /\ tests' = SetTest(tests, InsmodFailedRecord(r))
                /\ out' = Append(out, Line(1, "FAIL"))
                /\ pc' = "ret"
    /\ UNCHANGED <<idx, summary, exc, handles, clean, denied, proc, report, analysis>>

\* Variant: insmod's status alone decides, the query is not looked at.
LoadUnverified(q) == LoadPassRecord
\* Lines 83-96 and 104-105: the confirmation by is_module_loaded().
LoadVerifyRecord(q) ==
    IF is_module_loaded(q) THEN LoadPassRecord ELSE LoadNotFoundRecord

LoadVerify ==
    /\ pc = "load_verify"
    /\ \E q \in run_command :
        /\ cur' = Append(cur, CmdOp("lsmod", q))
        /\ tests' = SetTest(tests, LoadVerifyRecord(q))
        /\ out' = Append(out, Line(1, LoadVerifyRecord(q).status))
    /\ pc' = "ret"
    /\ UNCHANGED <<idx, summary, exc, handles, modLoaded, clean, denied, proc, report, analysis>>

\* --------------------------------------------- test_device_node_creation
NodePassRecord ==
    Record(TestNames[2], "PASS", Text("Character device created successfully"), 3)
NodeNotChrRecord ==
    Record(TestNames[2], "FAIL", Text("exists but is not a character device"), 0)
NodeAbsentRecord ==
    Record(TestNames[2], "FAIL", Text("Device node not created"), 0)

\* Lines 110-115 and 132-140: print, sleep, os.path.exists.
NodeExists ==
    /\ Enter(2)
    /\ \E present \in BOOLEAN :
        /\ cur' = <<CountOp("exists", IF present THEN 1 ELSE 0)>>
        /\ IF present
           THEN /\ pc' = "node_stat"
                /\ out' = Append(out, Line(2, "start"))
                /\ UNCHANGED tests
           ELSE /\ tests' = SetTest(tests, NodeAbsentRecord)
                /\ out' = out \o <<Line(2, "start"), Line(2, "FAIL")>>
                /\ pc' = "ret"
    /\ UNCHANGED <<idx, summary, exc, handles, modLoaded, clean, denied, proc, report, analysis>>

\* Variant: any entry at the device path passes, S_ISCHR is not asked.
NodeAnyType(kind) == NodePassRecord
\* Lines 117-131: os.stat is outside any try, so what it raises leaves the
\* check; S_ISCHR decides between PASS and FAIL.
NodeStatRecord(kind) == IF kind = "chr" THEN NodePassRecord ELSE NodeNotChrRecord

NodeStat ==
    /\ pc = "node_stat"
    /\ \/ \E kind \in StatKinds :
            /\ cur' = Append(cur, Op("stat", 0, NoExc, 0, <<kind>>))
            /\ tests' = SetTest(tests, NodeStatRecord(kind))
            /\ out' = Append(out, Line(2, NodeStatRecord(kind).status))
            /\ pc' = "ret"
            /\ UNCHANGED exc
       \/ \E e \in StatErrors :
            /\ cur' = Append(cur, ErrOp("stat", e))
            /\ exc' = e
            /\ pc' = "raised"
            /\ UNCHANGED <<tests, out>>
    /\ UNCHANGED <<idx, summary, handles, modLoaded, clean, denied, proc, report, analysis>>

\* Variant: the file object is not closed when the block is left.
ReleaseNever(h) == h
\* Leaving a `with open(...)` block closes the file object, also when
\* close() raises.
Release(h) == h - 1

\* The exception that leaves a `with open(...)` block: the one close()
\* raises if it raises, else the one the body raised.
Leaving(pending, closed) == IF closed # NoExc THEN closed ELSE pending

\* ------------------------------------------------ test_device_open_close
OpenClosePassRecord ==
    Record(TestNames[3], "PASS", Text("Device opened and closed successfully"), 2)
\* Variant: no except clause for FileNotFoundError.
OpenCloseHandlerNoNotFound(e) ==
    IF e.type = "PermissionError"
    THEN Record(TestNames[3], "FAIL", Text("Permission denied (try running as root)"), 0)
    ELSE Record(TestNames[3], "FAIL", TextS("Open failed: ", e.msg), 0)
\* Lines 157-174: the except clauses, first match wins.
OpenCloseHandler(e) ==
    IF e.type = "PermissionError"
    THEN Record(TestNames[3], "FAIL", Text("Permission denied (try running as root)"), 0)
    ELSE IF e.type = "FileNotFoundError"
    THEN Record(TestNames[3], "FAIL", Text("Device not found"), 0)
    ELSE Record(TestNames[3], "FAIL", TextS("Open failed: ", e.msg), 0)

\* Lines 145-155: open(device_path, 'r+b'); the body stores PASS and prints.
OpenCloseOpen ==
    /\ Enter(3)
    /\ \E o \in OpenOutcomes(3) :
        /\ cur' = <<ErrOp("open", o)>>
        /\ IF o = NoExc
           THEN /\ handles' = handles + 1
                /\ tests' = SetTest(tests, OpenClosePassRecord)
                /\ out' = out \o <<Line(3, "start"), Line(3, "PASS")>>
                /\ pc' = "oc_close"
           ELSE /\ tests' = SetTest(tests, OpenCloseHandler(o))
                /\ out' = out \o <<Line(3, "start"), Line(3, "FAIL")>>
                /\ pc' = "ret"
                /\ UNCHANGED handles
    /\ UNCHANGED <<idx, summary, exc, modLoaded, clean, denied, proc, report, analysis>>

\* Line 156: `return True` leaves the with block, which closes the device;
\* what close() raises is caught by the except clauses of the check.
OpenCloseClose ==
    /\ pc = "oc_close"
    /\ \E c \in CloseOutcomes :
        /\ cur' = Append(cur, ErrOp("close", c))
        /\ IF c = NoExc
           THEN UNCHANGED <<tests, out>>
           ELSE /\ tests' = SetTest(tests, OpenCloseHandler(c))
                /\ out' = Append(out, Line(3, "FAIL"))
    /\ handles' = Release(handles)
    /\ pc' = "ret"
    /\ UNCHANGED <<idx, summary, exc, modLoaded, clean, denied, proc, report, analysis>>

\* ------------------------------------------------------ test_device_read
\* Variant: one byte is not enough to pass.
ReadDataOffByOne(n) ==
    IF n > 1
    THEN Record(TestNames[4], "PASS", Msg("Read %d bytes successfully", n, 0, "", <<>>), 2)
    ELSE Record(TestNames[4], "PARTIAL", Text("Read succeeded but returned no data"), 1)
\* Lines 187-202: `if data:` is true for one byte or more.
ReadDataRecord(n) ==
    IF n # 0
    THEN Record(TestNames[4], "PASS", Msg("Read %d bytes successfully", n, 0, "", <<>>), 2)
    ELSE Record(TestNames[4], "PARTIAL", Text("Read succeeded but returned no data"), 1)
\* Variant: the except clauses classify the exception as ERROR.
ReadHandlerError(e) ==
    IF e.type = "PermissionError"
    THEN Record(TestNames[4], "ERROR", Text("Permission denied (try running as root)"), 0)
    ELSE Record(TestNames[4], "ERROR", TextS("Read failed: ", e.msg), 0)
\* Lines 203-214: the except clauses.
ReadHandler(e) ==
    IF e.type = "PermissionError"
    THEN Record(TestNames[4], "FAIL", Text("Permission denied (try running as root)"), 0)
    ELSE Record(TestNames[4], "FAIL", TextS("Read failed: ", e.msg), 0)

\* Lines 182-185: open(device_path, 'rb').
ReadOpen ==
    /\ Enter(4)
    /\ \E o \in OpenOutcomes(4) :
        /\ cur' = <<ErrOp("open", o)>>
        /\ IF o = NoExc
           THEN /\ handles' = handles + 1
                /\ out' = Append(out, Line(4, "start"))
                /\ pc' = "rd_read"
                /\ UNCHANGED tests
           ELSE /\ tests' = SetTest(tests, ReadHandler(o))
                /\ out' = out \o <<Line(4, "start"), Line(4, "FAIL")>>
                /\ pc' = "ret"
                /\ UNCHANGED handles
    /\ UNCHANGED <<idx, summary, exc, modLoaded, clean, denied, proc, report, analysis>>

\* Lines 186-202: device.read(1024), then the record and its print.
ReadRead ==
    /\ pc = "rd_read"
    /\ \/ \E n \in 0..MaxReadLen :
            /\ cur' = Append(cur, CountOp("read", n))
            /\ tests' = SetTest(tests, ReadDataRecord(n))
            /\ out' = Append(out, Line(4, ReadDataRecord(n).status))
            /\ UNCHANGED exc
       \/ \E e \in IOErrors :
            /\ cur' = Append(cur, ErrOp("read", e))
            /\ exc' = e
            /\ UNCHANGED <<tests, out>>
    /\ pc' = "rd_close"
    /\ UNCHANGED <<idx, summary, handles, modLoaded, clean, denied, proc, report, analysis>>

\* The with block of lines 185-202 is left: close(), then the except
\* clauses for whatever exception leaves it.
ReadClose ==
    /\ pc = "rd_close"
    /\ \E c \in CloseOutcomes :
        /\ cur' = Append(cur, ErrOp("close", c))
        /\ IF Leaving(exc, c) = NoExc
           THEN UNCHANGED <<tests, out>>
           ELSE /\ tests' = SetTest(tests, ReadHandler(Leaving(exc, c)))
                /\ out' = Append(out, Line(4, "FAIL"))
    /\ exc' = NoExc
    /\ handles' = Release(handles)
    /\ pc' = "ret"
    /\ UNCHANGED <<idx, summary, modLoaded, clean, denied, proc, report, analysis>>

\* ----------------------------------------------------- test_device_write
\* Variant: the full length is compared with > instead of ==.
WriteCountOffByOne(n) ==
    IF n > Len(WriteData)
    THEN Record(TestNames[5], "PASS", Msg("Wrote %d bytes successfully", n, 0, "", <<>>), 2)
    ELSE Record(TestNames[5], "PARTIAL",
                Msg("Partial write: %d/%d bytes", n, Len(WriteData), "", <<>>), 1)
\* Variant: the message of a short write gives the written count only.
WriteCountNoTotal(n) ==
    IF n = Len(WriteData)
    THEN Record(TestNames[5], "PASS", Msg("Wrote %d bytes successfully", n, 0, "", <<>>), 2)
    ELSE Record(TestNames[5], "PARTIAL", Msg("Partial write: %d bytes", n, 0, "", <<>>), 1)
\* Lines 229-244: bytes_written == len(test_data).
WriteCountRecord(n) ==
    IF n = Len(WriteData)
    THEN Record(TestNames[5], "PASS", Msg("Wrote %d bytes successfully", n, 0, "", <<>>), 2)
    ELSE Record(TestNames[5], "PARTIAL",
                Msg("Partial write: %d/%d bytes", n, Len(WriteData), "", <<>>), 1)
\* Lines 245-256: the except clauses.
WriteHandler(e) ==
    IF e.type = "PermissionError"
    THEN Record(TestNames[5], "FAIL", Text("Permission denied (try running as root)"), 0)
    ELSE Record(TestNames[5], "FAIL", TextS("Write failed: ", e.msg), 0)

\* The byte counts device.write may report.
WrittenCounts == (0..MaxShortWrite) \cup {Len(WriteData)}

\* Lines 222-227: open(device_path, 'wb').
WriteOpen ==
    /\ Enter(5)
    /\ \E o \in OpenOutcomes(5) :
        /\ cur' = <<ErrOp("open", o)>>
        /\ IF o = NoExc
           THEN /\ handles' = handles + 1
                /\ out' = Append(out, Line(5, "start"))
                /\ pc' = "wr_write"
                /\ UNCHANGED tests
           ELSE /\ tests' = SetTest(tests, WriteHandler(o))
                /\ out' = out \o <<Line(5, "start"), Line(5, "FAIL")>>
                /\ pc' = "ret"
                /\ UNCHANGED handles
    /\ UNCHANGED <<idx, summary, exc, modLoaded, clean, denied, proc, report, analysis>>

\* Lines 228-244: device.write(test_data), then the record and its print.
WriteWrite ==
    /\ pc = "wr_write"
    /\ \/ \E n \in WrittenCounts :
            /\ cur' = Append(cur, CountOp("write", n))
            /\ tests' = SetTest(tests, WriteCountRecord(n))
            /\ out' = Append(out, Line(5, WriteCountRecord(n).status))
            /\ UNCHANGED exc
       \/ \E e \in IOErrors :
            /\ cur' = Append(cur, ErrOp("write", e))
            /\ exc' = e
            /\ UNCHANGED <<tests, out>>
    /\ pc' = "wr_close"
    /\ UNCHANGED <<idx, summary, handles, modLoaded, clean, denied, proc, report, analysis>>

\* The with block of lines 227-244 is left.
WriteClose ==
    /\ pc = "wr_close"
    /\ \E c \in CloseOutcomes :
        /\ cur' = Append(cur, ErrOp("close", c))
        /\ IF Leaving(exc, c) = NoExc
           THEN UNCHANGED <<tests, out>>
           ELSE /\ tests' = SetTest(tests, WriteHandler(Leaving(exc, c)))
                /\ out' = Append(out, Line(5, "FAIL"))
    /\ exc' = NoExc
    /\ handles' = Release(handles)
    /\ pc' = "ret"
    /\ UNCHANGED <<idx, summary, modLoaded, clean, denied, proc, report, analysis>>

\* ------------------------------------------- test_read_write_consistency
ConsistencyPassRecord ==
    Record(TestNames[6], "PASS", Text("Write-read consistency verified"), 3)
\* Variant: only the lengths are compared.
CompareLengths(read_data) ==
    IF Len(read_data) = Len(ConsistencyData)
    THEN ConsistencyPassRecord
    ELSE Record(TestNames[6], "FAIL",
                Msg("Data mismatch: wrote %s, read %s", 0, 0, "",
                    <<ConsistencyData, read_data>>), 0)
\* Lines 277-290: read_data == test_data.
CompareRecord(read_data) ==
    IF read_data = ConsistencyData
    THEN ConsistencyPassRecord
    ELSE Record(TestNames[6], "FAIL",
                Msg("Data mismatch: wrote %s, read %s", 0, 0, "",
                    <<ConsistencyData, read_data>>), 0)
\* Variant: a failed session is given partial credit.
ConsistencyHandlerPartial(e) ==
    Record(TestNames[6], "PARTIAL", TextS("Consistency test failed: ", e.msg), 1)
\* Lines 291-296: the one except clause.
ConsistencyHandler(e) ==
    Record(TestNames[6], "FAIL", TextS("Consistency test failed: ", e.msg), 0)

\* What device.read(len(test_data)) may hand back: the payload, a short
\* read of it, or the payload with its last byte changed.
ReadBacks ==
    {SubSeq(ConsistencyData, 1, n) : n \in 0..MaxReadLen}
        \cup {ConsistencyData,
              [ConsistencyData EXCEPT ![Len(ConsistencyData)] = 0]}
ConsistencyWrittenCounts == {0, Len(ConsistencyData)}

\* Lines 264-270: open(device_path, 'wb').
ConsistencyOpenWrite ==
    /\ Enter(6)
    /\ \E o \in OpenOutcomes(6) :
        /\ cur' = <<ErrOp("open", o)>>
        /\ IF o = NoExc
           THEN /\ handles' = handles + 1
                /\ out' = Append(out, Line(6, "start"))
                /\ pc' = "cs_write"
                /\ UNCHANGED tests
           ELSE /\ tests' = SetTest(tests, ConsistencyHandler(o))
                /\ out' = out \o <<Line(6, "start"), Line(6, "FAIL")>>
                /\ pc' = "ret"
                /\ UNCHANGED handles
    /\ UNCHANGED <<idx, summary, exc, modLoaded, clean, denied, proc, report, analysis>>

\* Line 271: device.write(test_data); the count it returns is dropped.
ConsistencyWrite ==
    /\ pc = "cs_write"
    /\ \/ \E n \in ConsistencyWrittenCounts :
            /\ cur' = Append(cur, CountOp("write", n))
            /\ UNCHANGED exc
       \/ \E e \in IOErrors :
            /\ cur' = Append(cur, ErrOp("write", e))
            /\ exc' = e
    /\ pc' = "cs_wclose"
    /\ UNCHANGED <<idx, tests, summary, out, handles, modLoaded, clean, denied, proc, report, analysis>>

\* The with block of lines 270-271 is left.
ConsistencyCloseWrite ==
    /\ pc = "cs_wclose"
    /\ \E c \in CloseOutcomes :
        /\ cur' = Append(cur, ErrOp("close", c))
        /\ IF Leaving(exc, c) = NoExc
           THEN /\ pc' = "cs_ropen"
                /\ UNCHANGED <<tests, out>>
           ELSE /\ tests' = SetTest(tests, ConsistencyHandler(Leaving(exc, c)))
                /\ out' = Append(out, Line(6, "FAIL"))
                /\ pc' = "ret"
    /\ exc' = NoExc
    /\ handles' = Release(handles)
    /\ UNCHANGED <<idx, summary, modLoaded, clean, denied, proc, report, analysis>>

\* Line 274: open(device_path, 'rb').
ConsistencyOpenRead ==
    /\ pc = "cs_ropen"
    /\ \E o \in OpenOutcomes(6) :
        /\ cur' = Append(cur, ErrOp("open", o))
        /\ IF o = NoExc
           THEN /\ handles' = handles + 1
                /\ pc' = "cs_read"
                /\ UNCHANGED <<tests, out>>
           ELSE /\ tests' = SetTest(tests, ConsistencyHandler(o))
                /\ out' = Append(out, Line(6, "FAIL"))
                /\ pc' = "ret"
                /\ UNCHANGED handles
    /\ UNCHANGED <<idx, summary, exc, modLoaded, clean, denied, proc, report, analysis>>

\* Line 275: read_data = device.read(len(test_data)).
ConsistencyRead ==
    /\ pc = "cs_read"
    /\ \/ \E d \in ReadBacks :
            /\ cur' = Append(cur, DataOp("read", d))
            /\ UNCHANGED exc
       \/ \E e \in IOErrors :
            /\ cur' = Append(cur, ErrOp("read", e))
            /\ exc' = e
    /\ pc' = "cs_rclose"
    /\ UNCHANGED <<idx, tests, summary, out, handles, modLoaded, clean, denied, proc, report, analysis>>

\* The with block of lines 274-275 is left, then lines 277-299.
ConsistencyCloseRead ==
    /\ pc = "cs_rclose"
    /\ \E c \in CloseOutcomes :
        /\ cur' = Append(cur, ErrOp("close", c))
        /\ IF Leaving(exc, c) = NoExc
           THEN /\ tests' = SetTest(tests, CompareRecord(cur[Len(cur)].data))
                /\ out' = Append(out, Line(6, CompareRecord(cur[Len(cur)].data).status))
           ELSE /\ tests' = SetTest(tests, ConsistencyHandler(Leaving(exc, c)))
                /\ out' = Append(out, Line(6, "FAIL"))
    /\ exc' = NoExc
    /\ handles' = Release(handles)
    /\ pc' = "ret"
    /\ UNCHANGED <<idx, summary, modLoaded, clean, denied, proc, report, analysis>>

\* ---------------------------------------------------- test_module_unload
\* Variant: unloading is paid like loading.
UnloadPassLoadPoints ==
    Record(TestNames[7], "PASS", Text("Module unloaded successfully"), 5)
UnloadPassRecord ==
    Record(TestNames[7], "PASS", Text("Module unloaded successfully"), 2)
UnloadStillLoadedRecord ==
    Record(TestNames[7], "FAIL", Text("Module still loaded after rmmod"), 0)
RmmodFailedRecord(r) ==
    Record(TestNames[7], "FAIL", TextS("rmmod failed: ", r.err), 0)

\* Lines 304-308 and 324-332: sudo rmmod; a non-zero status is FAIL.
UnloadRmmod ==
    /\ Enter(7)
    /\ \E r \in run_command :
        /\ cur' = <<CmdOp("rmmod", r)>>
        /\ modLoaded' = IF r.rc = 0 THEN FALSE ELSE modLoaded
        /\ IF r.rc = 0
           THEN /\ pc' = "unload_verify"
                /\ out' = Append(out, Line(7, "start"))
                /\ UNCHANGED tests
           ELSE /\ tests' = SetTest(tests, RmmodFailedRecord(r))
                /\ out' = out \o <<Line(7, "start"), Line(7, "FAIL")>>
                /\ pc' = "ret"
    /\ UNCHANGED <<idx, summary, exc, handles, clean, denied, proc, report, analysis>>

\* Variant: rmmod's status alone decides, the query is not looked at.
UnloadUnverified(q) == UnloadPassRecord
\* Lines 310-323 and 331-332: the confirmation by is_module_loaded().
UnloadVerifyRecord(q) ==
    IF ~is_module_loaded(q) THEN UnloadPassRecord ELSE UnloadStillLoadedRecord

UnloadVerify ==
    /\ pc = "unload_verify"
    /\ \E q \in run_command :
        /\ cur' = Append(cur, CmdOp("lsmod", q))
        /\ tests' = SetTest(tests, UnloadVerifyRecord(q))
        /\ out' = Append(out, Line(7, UnloadVerifyRecord(q).status))
    /\ pc' = "ret"
    /\ UNCHANGED <<idx, summary, exc, handles, modLoaded, clean, denied, proc, report, analysis>>

\* --------------------------------------------------------- run_all_tests
\* Whether every operation check k made came out as the check expects of a
\* working driver: load confirmed, character device present, open/close
\* ok, non-empty read, full write, read-back equal, unload confirmed.
Succeeded(k, ops) ==
    CASE k = 1 -> /\ Len(ops) >= 2
                  /\ ops[Len(ops) - 1].op = "insmod" /\ ops[Len(ops) - 1].rc = 0
                  /\ ops[Len(ops)].op = "lsmod" /\ ops[Len(ops)].rc = 0
      [] k = 2 -> /\ Len(ops) = 2
                  /\ ops[1].n = 1
                  /\ ops[2].exc = NoExc /\ ops[2].data = <<"chr">>
      [] k = 3 -> /\ Len(ops) = 2
                  /\ ops[1].exc = NoExc /\ ops[2].exc = NoExc
      [] k = 4 -> /\ Len(ops) = 3
                  /\ \A i \in 1..3 : ops[i].exc = NoExc
                  /\ ops[2].n > 0
      [] k = 5 -> /\ Len(ops) = 3
                  /\ \A i \in 1..3 : ops[i].exc = NoExc
                  /\ ops[2].n = Len(WriteData)
      [] k = 6 -> /\ Len(ops) = 6
                  /\ \A i \in 1..6 : ops[i].exc = NoExc
                  /\ ops[2].n = Len(ConsistencyData)
                  /\ ops[5].data = ConsistencyData
      [] k = 7 -> /\ Len(ops) = 2
                  /\ ops[1].rc = 0 /\ ops[2].rc # 0
      [] OTHER -> FALSE

\* Whether check k met a refusal for want of privileges: insmod or rmmod
\* failed, or every open() of the device raised PermissionError.
Refused(k, ops) ==
    CASE k = 1 -> \E i \in 1..Len(ops) : ops[i].op = "insmod" /\ ops[i].rc # 0
      [] k = 7 -> ops[1].op = "rmmod" /\ ops[1].rc # 0
      [] k \in 3..6 -> ops[1].op = "open" /\ ops[1].exc = PermissionError
      [] OTHER -> FALSE

\* Variant: a failed load sends the loop straight to the unload.
SkipToUnload(i, t) ==
    IF i = 1 /\ t[1].status # "PASS" THEN NumTests ELSE i + 1
\* Variant: the loop is left at the first check that did not pass.
StopOnFailure(i, t) ==
    IF \E j \in 1..Len(t) : t[j].status # "PASS" THEN NumTests + 1 ELSE i + 1
\* Line 350: the for statement takes the next test_func of the list; what
\* the last check recorded is not looked at.
NextTest(i, t) == i + 1

\* Lines 352-353: test_func() returned; the loop moves to the next check.
Return ==
    /\ pc = "ret"
    /\ summary' = [summary EXCEPT !.total_tests = @ + 1]
    /\ clean' = IF Succeeded(idx, cur) THEN clean \cup {idx} ELSE clean
    /\ denied' = IF Refused(idx, cur) THEN denied \cup {idx} ELSE denied
    /\ idx' = NextTest(idx, tests)
    /\ cur' = <<>>
    /\ pc' = "loop"
    /\ UNCHANGED <<tests, out, exc, handles, modLoaded, proc, report, analysis>>

\* Variant: a check that raised is stored as an ordinary failure.
ErrorAsFail(k, e) == Record(FuncNames[k], "FAIL", TextS("%s", e.msg), 0)
\* Lines 354-360: the record stored for a check that raised.
ErrorRecord(k, e) == Record(FuncNames[k], "ERROR", TextS("%s", e.msg), 0)

\* Lines 354-361: test_func() raised; the loop moves to the next check.
Except ==
    /\ pc = "raised"
    /\ out' = Append(out, Line(idx, "ERROR"))
    /\ tests' = SetTest(tests, ErrorRecord(idx, exc))
    /\ summary' = [summary EXCEPT !.total_tests = @ + 1]
    /\ exc' = NoExc
    /\ idx' = NextTest(idx, tests')
    /\ cur' = <<>>
    /\ pc' = "loop"
    /\ UNCHANGED <<handles, modLoaded, clean, denied, proc, report, analysis>>

\* Variant: the score is scaled to 15 points out of 17 and capped as it
\* is added up.
RECURSIVE TallyNormalized(_, _, _)
TallyNormalized(t, i, s) ==
    IF i > Len(t)
    THEN [s EXCEPT !.score = IF (@ * 15) \div 17 > 15 THEN 15 ELSE (@ * 15) \div 17]
    ELSE TallyNormalized(t, i + 1,
               [s EXCEPT !.passed = IF t[i].status = "PASS" THEN @ + 1 ELSE @,
                         !.failed = IF t[i].status = "PASS" THEN @ ELSE @ + 1,
                         !.score = @ + t[i].score])
\* Variant: the counts start from zero at every call.
RECURSIVE TallyReset(_, _, _)
TallyReset(t, i, s) ==
    IF i > Len(t)
    THEN s
    ELSE TallyReset(t, i + 1,
               [s EXCEPT !.passed = (IF i = 1 THEN 0 ELSE @)
                                       + (IF t[i].status = "PASS" THEN 1 ELSE 0),
                         !.failed = (IF i = 1 THEN 0 ELSE @)
                                       + (IF t[i].status = "PASS" THEN 0 ELSE 1),
                         !.score = @ + t[i].score])
\* Variant: PARTIAL is counted with the passed checks.
RECURSIVE TallyPartialPasses(_, _, _)
TallyPartialPasses(t, i, s) ==
    IF i > Len(t)
    THEN s
    ELSE TallyPartialPasses(t, i + 1,
               [s EXCEPT !.passed = IF t[i].status \in {"PASS", "PARTIAL"} THEN @ + 1 ELSE @,
                         !.failed = IF t[i].status \in {"PASS", "PARTIAL"} THEN @ ELSE @ + 1,
                         !.score = @ + t[i].score])
\* Lines 364-372: the loop over self.test_results["tests"].values(), from
\* record i on, adding to the counts the summary already holds.
RECURSIVE Tally(_, _, _)
Tally(t, i, s) ==
    IF i > Len(t)
    THEN s
    ELSE Tally(t, i + 1,
               [s EXCEPT !.passed = IF t[i].status = "PASS" THEN @ + 1 ELSE @,
                         !.failed = IF t[i].status = "PASS" THEN @ ELSE @ + 1,
                         !.score = @ + t[i].score])

\* Lines 363-383: the loop is over; the summary is computed and returned.
Summarize ==
    /\ pc = "loop"
    /\ idx > NumTests
    /\ summary' = Tally(tests, 1, [summary EXCEPT !.score = 0])
    /\ pc' = "done"
    /\ UNCHANGED <<idx, tests, out, exc, handles, modLoaded, cur, clean, denied, proc, report, analysis>>

\* What saving the results raises: os.makedirs or open(results_file, 'w')
\* refused, or nothing.
SaveOutcomes == {NoExc, PermissionError}
\* The status the process ends with when main returns or an exception
\* leaves it.
ExitStatus(e) == IF e = NoExc THEN 0 ELSE 1

\* Lines 410-417: os.makedirs, open and json.dump, outside any try; an
\* exception ends the process with a traceback.
Save ==
    /\ pc = "done"
    /\ \E e \in SaveOutcomes :
        proc' = [proc EXCEPT !.exit = ExitStatus(e),
                             !.file = IF e = NoExc
                                      THEN <<[tests |-> tests, summary |-> summary]>>
                                      ELSE <<>>]
    /\ pc' = "exit"
    /\ UNCHANGED <<idx, tests, summary, out, exc, handles, modLoaded, cur, clean, denied,
                   report, analysis>>

Next ==
    \/ MainStart \/ Save
    \/ LoadStart \/ LoadCleanup \/ LoadInsmod \/ LoadVerify
    \/ NodeExists \/ NodeStat
    \/ OpenCloseOpen \/ OpenCloseClose
    \/ ReadOpen \/ ReadRead \/ ReadClose
    \/ WriteOpen \/ WriteWrite \/ WriteClose
    \/ ConsistencyOpenWrite \/ ConsistencyWrite \/ ConsistencyCloseWrite
    \/ ConsistencyOpenRead \/ ConsistencyRead \/ ConsistencyCloseRead
    \/ UnloadRmmod \/ UnloadVerify
    \/ Return \/ Except \/ Summarize

Spec == Init /\ [][Next]_vars

\* ---------------------------------- run_all_tests called more than once
\* The tester object outlives a call of run_all_tests, so the method can be
\* called again on the same object.  Here a check function is one step:
\* what matters between calls is the record it leaves or the exception it
\* raises.  out holds one line per call, the header of line 336.
MaxCalls == 2
Header == Line(0, "run")
Calls == Len(SelectSeq(out, LAMBDA l : l = Header))

\* Records check k can leave: the query after insmod or rmmod finds the
\* module or not, the node is a character device or not, open is refused
\* or not, the device takes all bytes or none, and gives back the payload
\* or a changed one.
ExitedResults == {RunCommand(o) : o \in {Exited(0, ""), Exited(1, "stderr")}}
CheckResults(k) ==
    CASE k = 1 -> {LoadVerifyRecord(q) : q \in ExitedResults}
      [] k = 2 -> {NodeStatRecord(kind) : kind \in StatKinds}
      [] k = 3 -> {OpenClosePassRecord, OpenCloseHandler(PermissionError)}
      [] k = 4 -> {ReadDataRecord(MaxReadLen), ReadHandler(PermissionError)}
      [] k = 5 -> {WriteCountRecord(n) : n \in {0, Len(WriteData)}}
                    \cup {WriteHandler(PermissionError)}
      [] k = 6 -> {CompareRecord(d) :
                      d \in {ConsistencyData,
                             [ConsistencyData EXCEPT ![Len(ConsistencyData)] = 0]}}
      [] k = 7 -> {UnloadVerifyRecord(q) : q \in ExitedResults}
      [] OTHER -> {}
\* What check k can raise to the loop: only os.stat of the node check is
\* outside a try.
CheckRaises(k) == IF k = 2 THEN StatErrors ELSE {}

\* A tester right after DeviceDriverTester(module_path, device_name).
InitTester ==
    /\ pc = "new"
    /\ idx = 1
    /\ tests = <<>>
    /\ summary = [total_tests |-> 0, passed |-> 0, failed |-> 0, score |-> 0]
    /\ out = <<>>
    /\ exc = NoExc
    /\ handles = 0
    /\ modLoaded = FALSE
    /\ cur = <<>>
    /\ clean = {}
    /\ denied = {}
    /\ proc = [artifact |-> TRUE, exit |-> -1, file |-> <<>>]
    /\ report = NoReport
    /\ analysis = NoAnalysis

\* Lines 334-348: run_all_tests is entered and prints its header.
CallRunAllTests ==
    /\ pc \in {"new", "done"}
    /\ Calls < MaxCalls
    /\ out' = Append(out, Header)
    /\ idx' = 1
    /\ pc' = "loop"
    /\ UNCHANGED <<tests, summary, exc, handles, modLoaded, cur, clean, denied, proc, report, analysis>>

\* Lines 350-353: test_func() stores its record and returns.
CheckReturns ==
    /\ pc = "loop"
    /\ idx <= NumTests
    /\ \E rec \in CheckResults(idx) : tests' = SetTest(tests, rec)
    /\ summary' = [summary EXCEPT !.total_tests = @ + 1]
    /\ idx' = NextTest(idx, tests')
    /\ UNCHANGED <<pc, out, exc, handles, modLoaded, cur, clean, denied, proc, report, analysis>>

\* Lines 350-361: test_func() raises and the loop stores the ERROR record.
CheckRaised ==
    /\ pc = "loop"
    /\ idx <= NumTests
    /\ \E e \in CheckRaises(idx) : tests' = SetTest(tests, ErrorRecord(idx, e))
    /\ summary' = [summary EXCEPT !.total_tests = @ + 1]
    /\ idx' = NextTest(idx, tests')
    /\ UNCHANGED <<pc, out, exc, handles, modLoaded, cur, clean, denied, proc, report, analysis>>

NextCalls == CallRunAllTests \/ CheckReturns \/ CheckRaised \/ Summarize
SpecCalls == InitTester /\ [][NextCalls]_vars

\* ------------------------------------------------- generate_report.py
\* calculate_overall_score computes in floats.  The model holds every
\* score of the report as a whole number of seventeenths (Unit of them
\* make one point), which is exact for (func_score / 17) * 15.
Unit == 17
MaxRawScore == 19
None == [none |-> TRUE]
Get(d, key, default) == IF key \in DOMAIN d THEN d[key] ELSE default
Min(a, b) == IF a <= b THEN a ELSE b

\* What json.load may find in functional_test_results.json: an object
\* without a summary, a summary without a score, or a summary with one.
FunctionalFiles ==
    {[tests |-> <<>>], [tests |-> <<>>, summary |-> [total_tests |-> 0]]}
        \cup {[tests |-> <<>>, summary |-> [score |-> sc]] : sc \in 0..MaxRawScore}
\* What compilation_results_analyzed.json may hold, or None when the file
\* is missing.
CompilationFiles ==
    {None, [files |-> <<>>]}
        \cup {[scoring_summary |->
                  [average_scores |-> [compilation |-> c, static_analysis |-> a]]] :
              c \in {0, 15}, a \in {0, 10}}

\* The reports directory when generate_report.py starts: the functional
\* results file is there or not.
InitReport ==
    /\ pc = "report_load"
    /\ idx = 1
    /\ tests = <<>>
    /\ summary = [total_tests |-> 0, passed |-> 0, failed |-> 0, score |-> 0]
    /\ out = <<>>
    /\ exc = NoExc
    /\ handles = 0
    /\ modLoaded = FALSE
    /\ cur = <<>>
    /\ clean = {}
    /\ denied = {}
    /\ \E f \in {<<>>} \cup {<<d>> : d \in FunctionalFiles} :
          proc = [artifact |-> TRUE, exit |-> 0, file |-> f]
    /\ report = NoReport
    /\ analysis = NoAnalysis

\* Lines 40-62: load_results.
load_results ==
    /\ pc = "report_load"
    /\ \E c \in CompilationFiles :
          report' = [results |->
                        [compilation |-> c,
                         functional |-> IF proc.file = <<>> THEN None ELSE proc.file[1]],
                     scores |-> <<>>]
    /\ pc' = "report_score"
    /\ UNCHANGED <<idx, tests, summary, out, exc, handles, modLoaded, cur, clean, denied,
                   proc, analysis>>

\* Variant: the functional score is scaled but not capped.
FunctionalUncapped(results) ==
    IF results.functional # None /\ "summary" \in DOMAIN results.functional
    THEN (Get(results.functional.summary, "score", 0) * 15 * Unit) \div 17
    ELSE 0
\* Lines 84-90: scores['functional_testing'], in seventeenths.
functional_testing(results) ==
    IF results.functional # None /\ "summary" \in DOMAIN results.functional
    THEN Min(15 * Unit, (Get(results.functional.summary, "score", 0) * 15 * Unit) \div 17)
    ELSE 0
\* Lines 76-82: the two averages taken from the compilation results.
average_scores(results) ==
    IF results.compilation # None /\ "scoring_summary" \in DOMAIN results.compilation
    THEN results.compilation.scoring_summary.average_scores
    ELSE [compilation |-> 0, static_analysis |-> 0]
\* Lines 66-106: the detailed scores.
detailed_scores(results) ==
    [compilation |-> Get(average_scores(results), "compilation", 0) * Unit,
     static_analysis |-> Get(average_scores(results), "static_analysis", 0) * Unit,
     functional_testing |-> functional_testing(results),
     security |-> 10 * Unit,
     code_quality |->
        IF Get(average_scores(results), "static_analysis", 0) > 0
        THEN Min(20 * Unit, Get(average_scores(results), "static_analysis", 0) * 2 * Unit)
        ELSE 5 * Unit,
     performance |-> 8 * Unit,
     advanced |-> 3 * Unit]
\* Lines 108-129: the category scores and the total.
calculate_overall_score(results) ==
    LET scores == detailed_scores(results)
        correctness == scores.compilation + scores.functional_testing
    IN  [detailed_scores |-> scores,
         category_scores |->
            [correctness |-> correctness,
             security |-> scores.security,
             code_quality |-> scores.code_quality,
             performance |-> scores.performance,
             advanced |-> scores.advanced],
         total_score |-> correctness + scores.security + scores.code_quality
                            + scores.performance + scores.advanced,
         max_possible |-> 100 * Unit,
         percentage |-> correctness + scores.security + scores.code_quality
                            + scores.performance + scores.advanced]

\* Lines 64-129: calculate_overall_score(results).
CalculateOverallScore ==
    /\ pc = "report_score"
    /\ report' = [report EXCEPT !.scores = calculate_overall_score(report.results)]
    /\ pc' = "report_done"
    /\ UNCHANGED <<idx, tests, summary, out, exc, handles, modLoaded, cur, clean, denied,
                   proc, analysis>>

NextReport == load_results \/ CalculateOverallScore
SpecReport == InitReport /\ [][NextReport]_vars

\* ------------------------------------------------ compile_analyzer.py
MaxWarnings == 5
MaxViolations == 11
MaxTidyWarnings == 6

\* Variant: the count of warnings is tested before the status.
CompilationScoreWarningsFirst(status, warnings, errors) ==
    IF warnings >= 4 \/ status = "warnings" THEN 5
    ELSE IF status = "failed" THEN 0
    ELSE IF status = "success" /\ warnings = 0 THEN 15
    ELSE IF status = "success" /\ 1 <= warnings /\ warnings <= 3 THEN 10
    ELSE 0
\* Lines 26-37.
calculate_compilation_score(status, warnings, errors) ==
    IF status = "failed" THEN 0
    ELSE IF status = "success" /\ warnings = 0 THEN 15
    ELSE IF status = "success" /\ 1 <= warnings /\ warnings <= 3 THEN 10
    ELSE IF warnings >= 4 \/ status = "warnings" THEN 5
    ELSE 0
\* Lines 39-48.
calculate_checkpatch_score(violations) ==
    IF violations = 0 THEN 5
    ELSE IF 1 <= violations /\ violations <= 3 THEN 3
    ELSE IF 4 <= violations /\ violations <= 10 THEN 1
    ELSE 0
\* Lines 50-59.
calculate_clang_tidy_score(warnings) ==
    IF warnings = 0 THEN 5
    ELSE IF 1 <= warnings /\ warnings <= 2 THEN 3
    ELSE IF 3 <= warnings /\ warnings <= 5 THEN 1
    ELSE 0

\* A dict that holds none of the keys the analyzer asks for.
NoKeys == [file |-> "driver.c"]
\* Lines 63-80: the three values read from file_data, with the defaults
\* of the .get calls.
CompStatus(fd) == Get(Get(fd, "compilation", NoKeys), "status", "failed")
CompWarnings(fd) == Get(Get(fd, "compilation", NoKeys), "warnings", 0)
CompErrors(fd) == Get(Get(fd, "compilation", NoKeys), "errors", 0)
Violations(fd) ==
    Get(Get(Get(fd, "static_analysis", NoKeys), "checkpatch", NoKeys), "violations", 0)
TidyWarnings(fd) ==
    Get(Get(Get(fd, "static_analysis", NoKeys), "clang_tidy", NoKeys), "warnings", 0)
\* Lines 82-88: the scores dict.
file_scores(fd) ==
    LET comp_score == calculate_compilation_score(CompStatus(fd), CompWarnings(fd),
                                                  CompErrors(fd))
        checkpatch_score == calculate_checkpatch_score(Violations(fd))
        clang_score == calculate_clang_tidy_score(TidyWarnings(fd))
    IN  [compilation_score |-> comp_score,
         checkpatch_score |-> checkpatch_score,
         clang_tidy_score |-> clang_score,
         static_analysis_score |-> checkpatch_score + clang_score,
         total_score |-> comp_score + checkpatch_score + clang_score]
\* Lines 61-90: file_data['scores'] = {...}; return file_data.
analyze_file(fd) ==
    [k \in DOMAIN fd \cup {"scores"} |-> IF k = "scores" THEN file_scores(fd) ELSE fd[k]]

\* The entries of results_data['files'] the analyzer may be given.
CompilationStatuses == {"failed", "success", "warnings", "unknown"}
CompilationData ==
    {[status |-> st, warnings |-> w, errors |-> 0] :
        st \in CompilationStatuses, w \in 0..MaxWarnings}
        \cup {[status |-> st] : st \in CompilationStatuses}
        \cup {NoKeys}
StaticData ==
    {[checkpatch |-> [violations |-> v], clang_tidy |-> [warnings |-> t]] :
        v \in 0..MaxViolations, t \in 0..MaxTidyWarnings}
        \cup {[checkpatch |-> [violations |-> v]] : v \in {0, MaxViolations}}
        \cup {[clang_tidy |-> NoKeys]}
FileData ==
    {[file |-> "driver.c", compilation |-> c, static_analysis |-> a] :
        c \in CompilationData, a \in StaticData}
        \cup {[file |-> "driver.c", compilation |-> c] : c \in CompilationData}
        \cup {NoKeys}

InitAnalyzer ==
    /\ pc = "analyze"
    /\ idx = 1
    /\ tests = <<>>
    /\ summary = [total_tests |-> 0, passed |-> 0, failed |-> 0, score |-> 0]
    /\ out = <<>>
    /\ exc = NoExc
    /\ handles = 0
    /\ modLoaded = FALSE
    /\ cur = <<>>
    /\ clean = {}
    /\ denied = {}
    /\ proc = [artifact |-> TRUE, exit |-> 0, file |-> <<>>]
    /\ report = NoReport
    /\ analysis \in FileData

\* Lines 61-90: analyze_file(file_data).
AnalyzeFile ==
    /\ pc = "analyze"
    /\ analysis' = analyze_file(analysis)
    /\ pc' = "analyzed"
    /\ UNCHANGED <<idx, tests, summary, out, exc, handles, modLoaded, cur, clean, denied,
                   proc, report>>

NextAnalyzer == AnalyzeFile
SpecAnalyzer == InitAnalyzer /\ [][NextAnalyzer]_vars

\* ================================================================ claims
\* The checks whose first line has been printed, in the order printed.
Started == SelectSeq(out, LAMBDA l : l.tag = "start")
\* A check function is running.
InCheck == pc \notin {"main", "loop", "done", "exit"}
\* What the collection holds under a name.
Stored(name) == GetTest(tests, name)
Statuses == [i \in 1..Len(tests) |-> tests[i].status]
Scores == [i \in 1..Len(tests) |-> tests[i].score]
RECURSIVE SumSeq(_)
SumSeq(q) == IF q = <<>> THEN 0 ELSE q[1] + SumSeq(Tail(q))
CountOf(S) == Cardinality({i \in 1..Len(tests) : tests[i].status \in S})

\* C1: the seven checks are entered once each in the order of the list,
\* whatever the earlier checks recorded or raised; check k is entered only
\* when the k-1 checks before it have been counted as finished, and the run
\* ends only after all seven were entered.
C1_AllChecksInOrder ==
    /\ Len(Started) <= NumTests
    /\ \A i \in 1..Len(Started) : Started[i].k = i
    /\ Len(Started) = summary.total_tests + (IF InCheck THEN 1 ELSE 0)
    /\ InCheck => idx = Len(Started)
    /\ pc = "done" => Len(Started) = NumTests /\ summary.total_tests = NumTests
C1_Witness ==
    /\ pc = "done"
    /\ \E i \in 1..Len(tests) : tests[i].status = "ERROR"
    /\ \E i \in 1..Len(tests) : tests[i].status = "FAIL"
    /\ \E i \in 1..Len(tests) : tests[i].status = "PARTIAL"
    /\ \E i \in 1..Len(tests) : tests[i].status = "PASS"
    /\ Stored(TestNames[1]).status = "FAIL"

\* C2: an exception that leaves a check function is caught by the loop,
\* which stores a record with status ERROR, score 0 and the exception's
\* message under the check function's name, counts the check, and goes on
\* with the next check; the run still enters every remaining check.
C2_Isolated ==
    pc = "raised" =>
        /\ pc' = "loop"
        /\ idx' = idx + 1
        /\ summary'.total_tests = summary.total_tests + 1
        /\ HasKey(tests', FuncNames[idx])
        /\ GetTest(tests', FuncNames[idx]).status = "ERROR"
        /\ GetTest(tests', FuncNames[idx]).score = 0
        /\ GetTest(tests', FuncNames[idx]).message.s = exc.msg
        /\ exc' = NoExc
C2_RestRun ==
    (pc = "done" /\ \E i \in 1..Len(tests) : tests[i].status = "ERROR")
        => /\ Len(Started) = NumTests
           /\ summary.total_tests = NumTests
C2_ErrorIsolated == [][C2_Isolated]_vars /\ []C2_RestRun
C2_Witness ==
    /\ pc = "done"
    /\ HasKey(tests, FuncNames[2])
    /\ Stored(FuncNames[2]).status = "ERROR"
    /\ HasKey(tests, TestNames[7])

\* The operations of the current check, by name.
HasOp(name) == \E i \in 1..Len(cur) : cur[i].op = name
CurOp(name) == cur[CHOOSE i \in 1..Len(cur) : cur[i].op = name]
LastOp == cur[Len(cur)]
\* Check k has just returned to the loop.
Returned(k) == pc = "ret" /\ idx = k
\* The exception, if any, that open, the body or close raised in a check
\* that opens the device once: the one close raised wins over the body's.
RaisedIn(ops) ==
    IF ops[1].exc # NoExc THEN ops[1].exc
    ELSE IF ops[Len(ops)].exc # NoExc THEN ops[Len(ops)].exc
    ELSE ops[2].exc

\* C3 as claimed: a fault raised by device.read leaves the read check
\* with a record of status ERROR.
ReadFault == Returned(4) /\ HasOp("read") /\ CurOp("read").exc # NoExc
C3_ReadFaultIsError ==
    ReadFault =>
        \E i \in 1..Len(tests) :
            /\ tests[i].name \in {TestNames[4], FuncNames[4]}
            /\ tests[i].status = "ERROR"
            /\ tests[i].score = 0
\* C3 as amended: a fault raised by device.read is caught inside the read
\* check, whose record is FAIL with score 0 (no ERROR record is stored for
\* it), and the write and consistency checks are still run afterwards.
C3_FaultRecorded ==
    ReadFault =>
        /\ HasKey(tests, TestNames[4])
        /\ Stored(TestNames[4]).status = "FAIL"
        /\ Stored(TestNames[4]).score = 0
        /\ ~HasKey(tests, FuncNames[4])
        /\ exc = NoExc
C3_ThenWriteRuns == ReadFault => pc' = "loop" /\ idx' = 5
C3_LaterChecksRan ==
    pc = "done" =>
        /\ \E i \in 1..Len(out) : out[i] = Line(5, "start")
        /\ \E i \in 1..Len(out) : out[i] = Line(6, "start")
        /\ HasKey(tests, TestNames[5])
        /\ HasKey(tests, TestNames[6])
C3_ReadFaultIsFail ==
    []C3_FaultRecorded /\ [][C3_ThenWriteRuns]_vars /\ []C3_LaterChecksRan
C3_Witness == ReadFault /\ LastOp.exc = NoExc

\* C4: when the run is over the summary counts seven checks, passed is the
\* number of PASS records, failed the number of PARTIAL, FAIL and ERROR
\* records, and score the sum of the records' scores.
C4_SummaryCounts ==
    pc = "done" =>
        /\ summary.total_tests = NumTests
        /\ summary.passed = CountOf({"PASS"})
        /\ summary.failed = CountOf({"PARTIAL", "FAIL", "ERROR"})
        /\ summary.passed + summary.failed = Len(tests)
        /\ summary.score = SumSeq(Scores)
C4_Witness ==
    /\ pc = "done"
    /\ CountOf({"PASS"}) = 3
    /\ CountOf({"PARTIAL"}) = 2
    /\ CountOf({"ERROR"}) = 1
    /\ CountOf({"FAIL"}) = 1

\* C5: a run in which every operation of every check succeeded records
\* PASS seven times with scores 5,3,2,2,2,3,2 under the seven test names in
\* order, and its summary is score 19, passed 7, failed 0.
C5_AllPass ==
    (pc = "done" /\ clean = 1..NumTests) =>
        /\ [i \in 1..Len(tests) |-> tests[i].name] = TestNames
        /\ Statuses = [i \in 1..NumTests |-> "PASS"]
        /\ Scores = <<5, 3, 2, 2, 2, 3, 2>>
        /\ summary = [total_tests |-> 7, passed |-> 7, failed |-> 0, score |-> 19]
C5_Witness == pc = "done" /\ clean = 1..NumTests

\* C6: module_load is PASS with score 5 exactly when insmod returned 0 and
\* the query that follows it reports the module; otherwise FAIL, score 0.
LoadConfirmed ==
    /\ HasOp("insmod") /\ CurOp("insmod").rc = 0
    /\ LastOp.op = "lsmod" /\ LastOp.rc = 0
C6_LoadPassIff ==
    Returned(1) =>
        /\ HasKey(tests, TestNames[1])
        /\ HasOp("insmod")
        /\ Stored(TestNames[1]).status = (IF LoadConfirmed THEN "PASS" ELSE "FAIL")
        /\ Stored(TestNames[1]).score = (IF LoadConfirmed THEN 5 ELSE 0)
C6_Witness ==
    /\ Returned(1)
    /\ CurOp("insmod").rc = 0
    /\ LastOp.op = "lsmod" /\ LastOp.rc # 0
    /\ Stored(TestNames[1]).status = "FAIL"

\* C7: module_unload is PASS with score 2 exactly when rmmod returned 0 and
\* the query after it does not report the module; rmmod 0 with the module
\* still reported is FAIL, and a failed rmmod is FAIL with rmmod's error
\* text in the message.
UnloadConfirmed == cur[1].rc = 0 /\ Len(cur) = 2 /\ cur[2].rc # 0
C7_UnloadPassIff ==
    Returned(7) =>
        /\ HasKey(tests, TestNames[7])
        /\ cur[1].op = "rmmod"
        /\ Stored(TestNames[7]).status = (IF UnloadConfirmed THEN "PASS" ELSE "FAIL")
        /\ Stored(TestNames[7]).score = (IF UnloadConfirmed THEN 2 ELSE 0)
        /\ cur[1].rc = 0 => Len(cur) = 2 /\ cur[2].op = "lsmod"
        /\ cur[1].rc # 0 =>
              /\ Stored(TestNames[7]).message.fmt = "rmmod failed: "
              /\ <<Stored(TestNames[7]).message.s>> = cur[1].data
C7_Witness ==
    /\ Returned(7)
    /\ cur[1].rc = 0 /\ Len(cur) = 2 /\ cur[2].rc = 0
    /\ Stored(TestNames[7]).status = "FAIL"

\* C8: the node check is entered whatever module_load recorded, and it is
\* PASS with score 3 exactly when os.path.exists found an entry and os.stat
\* reported a character device; an entry of another type, or no entry, is
\* FAIL with score 0.
NodeLeft == idx = 2 /\ pc \in {"ret", "raised"}
NodeExistsSeen == cur[1].op = "exists" /\ cur[1].n = 1
NodeIsChr == NodeExistsSeen /\ Len(cur) = 2 /\ cur[2].exc = NoExc /\ cur[2].data = <<"chr">>
NodeIsOther == NodeExistsSeen /\ Len(cur) = 2 /\ cur[2].exc = NoExc /\ cur[2].data = <<"other">>
NodePassStored ==
    /\ HasKey(tests, TestNames[2])
    /\ Stored(TestNames[2]).status = "PASS"
    /\ Stored(TestNames[2]).score = 3
NodeFailStored ==
    /\ HasKey(tests, TestNames[2])
    /\ Stored(TestNames[2]).status = "FAIL"
    /\ Stored(TestNames[2]).score = 0
C8_NodePassIff ==
    /\ (pc = "loop" /\ idx = 2) => (ENABLED NodeExists /\ HasKey(tests, TestNames[1]))
    /\ NodeLeft =>
        /\ \E i \in 1..Len(out) : out[i] = Line(2, "start")
        /\ NodePassStored <=> NodeIsChr
        /\ NodeIsOther => NodeFailStored
        /\ ~NodeExistsSeen => NodeFailStored
C8_Witness ==
    /\ NodeLeft
    /\ Stored(TestNames[1]).status = "FAIL"
    /\ NodeIsChr
    /\ NodePassStored

\* C9: device_open_close ends PASS with score 2 exactly when both open and
\* close raised nothing; a PermissionError, a FileNotFoundError and any
\* other exception, from open or from close, each end in FAIL with score 0
\* and a message of their own.
OpenCloseRaised == IF cur[1].exc # NoExc THEN cur[1].exc ELSE LastOp.exc
OpenCloseText(type) ==
    CASE type = "PermissionError" -> "Permission denied (try running as root)"
      [] type = "FileNotFoundError" -> "Device not found"
      [] OTHER -> "Open failed: "
C9_OpenClosePassIff ==
    Returned(3) =>
        /\ HasKey(tests, TestNames[3])
        /\ cur[1].op = "open"
        /\ cur[1].exc = NoExc => Len(cur) = 2 /\ cur[2].op = "close"
        /\ Stored(TestNames[3]).status = (IF OpenCloseRaised = NoExc THEN "PASS" ELSE "FAIL")
        /\ Stored(TestNames[3]).score = (IF OpenCloseRaised = NoExc THEN 2 ELSE 0)
        /\ OpenCloseRaised # NoExc =>
              Stored(TestNames[3]).message.fmt = OpenCloseText(OpenCloseRaised.type)
        /\ Cardinality({OpenCloseHandler(e).message.fmt : e \in OpenErrors(3)}) = 3
C9_Witness ==
    /\ Returned(3)
    /\ cur[1].exc = NoExc
    /\ LastOp.op = "close" /\ LastOp.exc # NoExc
    /\ Stored(TestNames[3]).status = "FAIL"

\* C10: device_read is FAIL with score 0 whenever open, read or close
\* raised; otherwise it is PASS with score 2 for one byte or more and
\* PARTIAL with score 1 for zero bytes.
ReadExpected ==
    IF RaisedIn(cur) # NoExc THEN <<"FAIL", 0>>
    ELSE IF cur[2].n >= 1 THEN <<"PASS", 2>>
    ELSE <<"PARTIAL", 1>>
C10_ReadClassified ==
    Returned(4) =>
        /\ HasKey(tests, TestNames[4])
        /\ cur[1].op = "open"
        /\ cur[1].exc = NoExc => Len(cur) = 3 /\ cur[2].op = "read" /\ cur[3].op = "close"
        /\ <<Stored(TestNames[4]).status, Stored(TestNames[4]).score>> = ReadExpected
C10_Witness ==
    /\ Returned(4)
    /\ RaisedIn(cur) = NoExc
    /\ cur[2].op = "read" /\ cur[2].n = 0
    /\ Stored(TestNames[4]).status = "PARTIAL"

\* C11: device_write is FAIL with score 0 whenever open, write or close
\* raised; otherwise it is PASS with score 2 when write reported the full
\* length of the payload, and PARTIAL with score 1 and a message giving
\* written/total when it reported fewer bytes.
WriteExpected ==
    IF RaisedIn(cur) # NoExc THEN <<"FAIL", 0>>
    ELSE IF cur[2].n = Len(WriteData) THEN <<"PASS", 2>>
    ELSE <<"PARTIAL", 1>>
C11_WriteClassified ==
    Returned(5) =>
        /\ HasKey(tests, TestNames[5])
        /\ cur[1].op = "open"
        /\ cur[1].exc = NoExc => Len(cur) = 3 /\ cur[2].op = "write" /\ cur[3].op = "close"
        /\ <<Stored(TestNames[5]).status, Stored(TestNames[5]).score>> = WriteExpected
        /\ Stored(TestNames[5]).status = "PARTIAL" =>
              /\ cur[2].n < Len(WriteData)
              /\ Stored(TestNames[5]).message.fmt = "Partial write: %d/%d bytes"
              /\ Stored(TestNames[5]).message.n = cur[2].n
              /\ Stored(TestNames[5]).message.m = 26
C11_Witness ==
    /\ Returned(5)
    /\ RaisedIn(cur) = NoExc
    /\ cur[2].op = "write" /\ cur[2].n < Len(WriteData)
    /\ Stored(TestNames[5]).status = "PARTIAL"

\* C12: the consistency check writes in one open session, closes it, and
\* only then opens the device again to read; it is PASS with score 3
\* exactly when nothing raised and the bytes read equal the payload, FAIL
\* with score 0 otherwise (short read, changed byte, exception), never
\* PARTIAL.
ConsistencyOps == <<"open", "write", "close", "open", "read", "close">>
ConsistencyRaised == \E i \in 1..Len(cur) : cur[i].exc # NoExc
ConsistencyEqual ==
    /\ Len(cur) = 6
    /\ ~ConsistencyRaised
    /\ cur[5].data = ConsistencyData
C12_ConsistencyPassIff ==
    /\ pc \in {"cs_write", "cs_wclose", "cs_ropen", "cs_read", "cs_rclose"} =>
          /\ Len(cur) <= 6
          /\ \A i \in 1..Len(cur) : cur[i].op = ConsistencyOps[i]
          /\ handles = (IF pc = "cs_ropen" THEN 0 ELSE 1)
    /\ Returned(6) =>
          /\ HasKey(tests, TestNames[6])
          /\ \A i \in 1..Len(cur) : cur[i].op = ConsistencyOps[i]
          /\ Stored(TestNames[6]).status = (IF ConsistencyEqual THEN "PASS" ELSE "FAIL")
          /\ Stored(TestNames[6]).score = (IF ConsistencyEqual THEN 3 ELSE 0)
          /\ (Len(cur) = 6 /\ ~ConsistencyRaised /\ ~ConsistencyEqual) =>
                Stored(TestNames[6]).message.d = <<ConsistencyData, cur[5].data>>
C12_Witness ==
    /\ Returned(6)
    /\ Len(cur) = 6
    /\ ~ConsistencyRaised
    /\ Len(cur[5].data) = Len(ConsistencyData)
    /\ cur[5].data # ConsistencyData
    /\ Stored(TestNames[6]).status = "FAIL"

\* C13: a command whose timeout expires, or that cannot be spawned, comes
\* back from run_command as status -1 with a text, never as an exception:
\* insmod and rmmod so ended are recorded FAIL with score 0 and that text,
\* as for a command that exited non-zero, a query so ended counts as "not
\* loaded", no exception leaves module_load or module_unload, and the loop
\* goes on.
NotRun(o) == o.data \in {<<"Command timed out">>, <<"spawn failed">>}
Commands == {"lsmod", "insmod", "rmmod"}
CurNotRun(op) == \E i \in 1..Len(cur) : cur[i].op = op /\ NotRun(cur[i])
C13_TimeoutIsFailure ==
    /\ \A i \in 1..Len(cur) :
          (cur[i].op \in Commands /\ NotRun(cur[i])) => cur[i].rc = -1
    /\ \A o \in SubprocessOutcomes :
          o.kind # "exit" => RunCommand(o).rc # 0 /\ RunCommand(o).err # ""
    /\ pc = "raised" => idx \notin {1, 7}
    /\ (Returned(1) /\ CurNotRun("insmod")) =>
          /\ LastOp.op = "insmod"
          /\ Stored(TestNames[1]) = InsmodFailedRecord(Completed(1, LastOp.data[1]))
          /\ Stored(TestNames[1]).status = "FAIL" /\ Stored(TestNames[1]).score = 0
          /\ ENABLED Return
    /\ (Returned(1) /\ LastOp.op = "lsmod" /\ NotRun(LastOp)) =>
          /\ Stored(TestNames[1]) = LoadNotFoundRecord
          /\ ENABLED Return
    /\ (Returned(7) /\ NotRun(cur[1])) =>
          /\ Len(cur) = 1
          /\ Stored(TestNames[7]) = RmmodFailedRecord(Completed(1, cur[1].data[1]))
          /\ Stored(TestNames[7]).status = "FAIL" /\ Stored(TestNames[7]).score = 0
          /\ ENABLED Return
    /\ (Returned(7) /\ LastOp.op = "lsmod" /\ NotRun(LastOp)) =>
          /\ Stored(TestNames[7]) = UnloadPassRecord
          /\ ENABLED Return
C13_Witness ==
    /\ Returned(7)
    /\ cur[1].data = <<"Command timed out">>
    /\ Stored(TestNames[7]).message.s = "Command timed out"
    /\ Stored(TestNames[1]).message.s = "spawn failed"

\* C14 as claimed: without the artifact the process ends with a non-zero
\* status before any check was entered, with no record, no summary count
\* and no results file; with the artifact the process never ends with a
\* non-zero status, whatever the checks or the later steps did.
Exits == pc = "exit"
NothingRan ==
    /\ out = <<>>
    /\ tests = <<>>
    /\ summary.total_tests = 0
    /\ proc.file = <<>>
C14_ExitNonZeroOnlyWithoutArtifact ==
    Exits =>
        IF proc.artifact THEN proc.exit = 0 ELSE proc.exit # 0 /\ NothingRan

\* C15 as claimed: a run that found the artifact has written the
\* structured result, the records and the summary of this run, to the
\* results file by the time the process ends.
C15_ResultAlwaysWritten ==
    (Exits /\ proc.artifact) =>
        proc.file = <<[tests |-> tests, summary |-> summary]>>

\* C16: the score of the summary is the plain sum of the scores of the
\* records, not scaled to 17 or capped at 15: it lies in 0..19 and it is
\* 19 exactly when seven records are stored and every one is PASS.
MaxScore ==
    LoadPassRecord.score + NodePassRecord.score + OpenClosePassRecord.score
        + ReadDataRecord(1).score + WriteCountRecord(Len(WriteData)).score
        + ConsistencyPassRecord.score + UnloadPassRecord.score
AllSevenPass == Len(tests) = NumTests /\ \A i \in 1..Len(tests) : tests[i].status = "PASS"
Unprivileged == denied = {1, 3, 4, 5, 6, 7}
C17_UnprivilegedRunCompletes ==
    /\ (pc = "done" /\ Unprivileged) =>
          /\ Len(Started) = NumTests
          /\ Len(tests) = NumTests
          /\ \A k \in denied :
                /\ HasKey(tests, TestNames[k])
                /\ Stored(TestNames[k]).status \in {"FAIL", "ERROR"}
                /\ Stored(TestNames[k]).score = 0
          /\ summary.total_tests = NumTests
          /\ summary.passed + summary.failed = NumTests
          /\ summary.passed <= 1
          /\ summary.score <= NodePassRecord.score
          /\ ENABLED Save
    /\ (Exits /\ Unprivileged /\ proc.file # <<>>) =>
          /\ proc.exit = 0
          /\ proc.file[1].summary.total_tests = NumTests
          /\ proc.file[1].tests = tests
C17_Witness ==
    /\ Exits
    /\ Unprivileged
    /\ proc.file # <<>>
    /\ summary.failed = NumTests

\* C18 as claimed: a record, once stored in the collection, is never
\* changed: no step replaces a stored record by a different one (as when
\* a PASS or PARTIAL stored while the device is open is followed by a FAIL
\* stored because closing the handle raised).
C18_RecordsImmutable ==
    [][\A i \in 1..Len(tests) : i <= Len(tests') /\ tests'[i] = tests[i]]_vars

\* C19: a device handle is open only inside the with block of the check
\* that opened it: none is open when a check is entered, has returned or
\* has raised, nor before or after the loop; never more than one is open;
\* and in the consistency check the handle of the write session is closed
\* before the read session opens its own.
WithBlocks ==
    {"oc_close", "rd_read", "rd_close", "wr_write", "wr_close",
     "cs_write", "cs_wclose", "cs_read", "cs_rclose"}
Boundaries == {"main", "loop", "ret", "raised", "done", "exit"}
C19_HandlesScoped ==
    /\ handles \in {0, 1}
    /\ handles = 1 <=> pc \in WithBlocks
    /\ pc \in Boundaries => handles = 0
    /\ pc = "cs_ropen" =>
          /\ handles = 0
          /\ Len(cur) = 3
          /\ cur[1].op = "open" /\ cur[1].exc = NoExc
          /\ cur[3].op = "close"
    /\ pc \in {"cs_read", "cs_rclose"} =>
          /\ cur[3].op = "close"
          /\ cur[4].op = "open" /\ cur[4].exc = NoExc
C19_Witness ==
    /\ Returned(6)
    /\ Len(cur) = 6
    /\ cur[5].exc # NoExc
    /\ cur[6].exc # NoExc
    /\ handles = 0

\* C20: module_load first queries the module table; if the module is
\* reported loaded, rmmod is run once and its result is dropped, and
\* insmod is then run exactly once whether rmmod succeeded or failed; if
\* the module is not reported loaded, insmod is run with no rmmod before.
OpsNamed(name) == SelectSeq(cur, LAMBDA o : o.op = name)
ReportedLoaded == is_module_loaded([rc |-> cur[1].rc, err |-> cur[1].data[1]])
C20_CleanupBeforeLoad ==
    /\ pc = "load_cleanup" =>
          Len(cur) = 1 /\ cur[1].op = "lsmod" /\ ReportedLoaded
    /\ pc = "load_insmod" =>
          /\ cur[1].op = "lsmod"
          /\ OpsNamed("insmod") = <<>>
          /\ IF ReportedLoaded
             THEN Len(cur) = 2 /\ cur[2].op = "rmmod"
             ELSE Len(cur) = 1
    /\ (pc = "load_verify" \/ Returned(1)) =>
          /\ cur[1].op = "lsmod"
          /\ Len(OpsNamed("insmod")) = 1
          /\ IF ReportedLoaded
             THEN cur[2].op = "rmmod" /\ cur[3].op = "insmod"
                  /\ Len(OpsNamed("rmmod")) = 1
             ELSE cur[2].op = "insmod" /\ OpsNamed("rmmod") = <<>>
C20_Witness ==
    /\ Returned(1)
    /\ ReportedLoaded
    /\ cur[2].op = "rmmod" /\ cur[2].rc # 0
    /\ cur[3].op = "insmod" /\ cur[3].rc = 0
    /\ Stored(TestNames[1]).status = "PASS"

\* C21: nothing is tried twice.  No check is entered a second time, and
\* the operations a check has performed are always the beginning of its
\* one fixed sequence: module_load runs insmod once, after at most one
\* rmmod; module_unload runs rmmod once; the open/close, read and write
\* checks open the device once and read or write once; the consistency
\* check opens once per session, writes once and reads once.  So a run has
\* one insmod and at most two rmmod.
OpNames == [i \in 1..Len(cur) |-> cur[i].op]
IsPrefix(p, q) == Len(p) <= Len(q) /\ SubSeq(q, 1, Len(p)) = p
Scripts(k) ==
    CASE k = 1 -> {<<"lsmod", "insmod", "lsmod">>,
                   <<"lsmod", "rmmod", "insmod", "lsmod">>}
      [] k = 2 -> {<<"exists", "stat">>}
      [] k = 3 -> {<<"open", "close">>}
      [] k = 4 -> {<<"open", "read", "close">>}
      [] k = 5 -> {<<"open", "write", "close">>}
      [] k = 6 -> {<<"open", "write", "close", "open", "read", "close">>}
      [] k = 7 -> {<<"rmmod", "lsmod">>}
      [] OTHER -> {<<>>}
C21_NoRetry ==
    /\ LET S == Started
       IN  Cardinality({S[i].k : i \in 1..Len(S)}) = Len(S)
    /\ \E q \in Scripts(idx) : IsPrefix(OpNames, q)
    /\ Returned(1) => Len(OpsNamed("insmod")) = 1 /\ Len(OpsNamed("rmmod")) <= 1
    /\ Returned(7) => Len(OpsNamed("rmmod")) = 1 /\ OpsNamed("insmod") = <<>>
    /\ (pc = "ret" /\ idx \in 3..5) =>
          /\ Len(OpsNamed("open")) = 1
          /\ Len(OpsNamed("read")) + Len(OpsNamed("write")) <= 1
    /\ Returned(6) =>
          /\ Len(OpsNamed("open")) <= 2
          /\ Len(OpsNamed("write")) <= 1
          /\ Len(OpsNamed("read")) <= 1
C21_Witness ==
    /\ Returned(7)
    /\ cur[1].op = "rmmod" /\ cur[1].rc # 0
    /\ Len(cur) = 1
    /\ Stored(TestNames[1]).status = "FAIL"
    /\ Stored(TestNames[4]).status = "FAIL"

\* C22: the records stand in the collection in the order in which their
\* checks ran: the i-th record is the one of the i-th check entered, under
\* the check's name or, for a check that raised, with status ERROR under
\* the check function's name; a check that has been counted has its
\* record, and only the running check can have one more.
C22_InsertionOrder ==
    /\ LET S == Started
       IN  Len(tests) <= Len(S) /\ \A i \in 1..Len(tests) : S[i].k = i
    /\ \A i \in 1..Len(tests) :
          /\ tests[i].name \in {TestNames[i], FuncNames[i]}
          /\ tests[i].name = FuncNames[i] <=> tests[i].status = "ERROR"
    /\ Len(tests) >= summary.total_tests
    /\ Len(tests) <= summary.total_tests + (IF InCheck THEN 1 ELSE 0)
C22_Witness ==
    /\ pc = "done"
    /\ tests[2].status = "ERROR"
    /\ tests[1].status = "FAIL"
    /\ tests[3].status = "PASS"
    /\ tests[7].status = "PASS"

\* C23 as claimed: every check that has finished has printed exactly one
\* outcome line, and the status on that line is the status of the record
\* the check left (also when closing the device handle raised after a
\* PASS or PARTIAL line was printed).
OutcomeLines(k) == SelectSeq(out, LAMBDA l : l.k = k /\ l.tag # "start")
C23_OneOutcomeLine ==
    \A i \in 1..summary.total_tests :
        LET o == OutcomeLines(i)
        IN  Len(o) = 1 /\ o[1].tag = tests[i].status

\* C25 as claimed: when the loop is over, the collection holds seven
\* records, one per check, each under the name its check uses for its own
\* records (ERROR records too), and the number of records, passed + failed
\* and total_tests are all 7.
C25_OneRecordPerCheckName ==
    pc = "done" =>
        /\ Len(tests) = NumTests
        /\ summary.total_tests = NumTests
        /\ summary.passed + summary.failed = NumTests
        /\ \A i \in 1..Len(tests) : tests[i].name = TestNames[i]

\* C26: every stored record, at every moment, has one of the four
\* statuses with the score that goes with it: PASS the points of its check
\* (5, 3, 2, 2, 2, 3, 2 in the order of the checks), PARTIAL 1 and only
\* for device_read and device_write, FAIL and ERROR 0.
Points == <<5, 3, 2, 2, 2, 3, 2>>
C26_StatusScore ==
    \A i \in 1..Len(tests) :
        LET r == tests[i]
        IN  /\ r.status \in {"PASS", "PARTIAL", "FAIL", "ERROR"}
            /\ r.status = "PASS" => r.score = Points[i] /\ r.name = TestNames[i]
            /\ r.status = "PARTIAL" => r.score = 1 /\ r.name \in {TestNames[4], TestNames[5]}
            /\ r.status \in {"FAIL", "ERROR"} => r.score = 0
C26_Witness ==
    /\ pc = "done"
    /\ CountOf({"PASS"}) = 4
    /\ CountOf({"PARTIAL"}) = 2
    /\ CountOf({"ERROR"}) = 1
    /\ tests[7].status = "PASS"

\* C27: the module counts as loaded exactly when the query command exits
\* with status 0.  A query that exits non-zero, times out or cannot be
\* spawned reads as "not loaded": module_load then skips the cleanup, and
\* after a successful insmod records FAIL although the module is loaded;
\* module_unload after a successful rmmod records PASS.
QueryFailed(o) == o.op = "lsmod" /\ o.rc # 0
C27_QueryStatusDecides ==
    /\ pc = "load_cleanup" => cur[1].rc = 0
    /\ (pc = "load_insmod" /\ Len(cur) = 1) => QueryFailed(cur[1])
    /\ (Returned(1) /\ LastOp.op = "lsmod") =>
          /\ cur[Len(cur) - 1].op = "insmod" /\ cur[Len(cur) - 1].rc = 0
          /\ modLoaded
          /\ Stored(TestNames[1]) =
                IF LastOp.rc = 0 THEN LoadPassRecord ELSE LoadNotFoundRecord
    /\ (Returned(7) /\ LastOp.op = "lsmod") =>
          /\ cur[1].op = "rmmod" /\ cur[1].rc = 0
          /\ Stored(TestNames[7]) =
                IF LastOp.rc = 0 THEN UnloadStillLoadedRecord ELSE UnloadPassRecord
C27_Witness ==
    /\ Returned(7)
    /\ LastOp.op = "lsmod" /\ LastOp.data = <<"Command timed out">>
    /\ Stored(TestNames[7]).status = "PASS"
    /\ Stored(TestNames[1]) = LoadNotFoundRecord

\* C28: the order of the lifecycle.  The node and the device are touched
\* only in checks 2..6, after module_load has made its one load attempt
\* and left its record; module_unload runs rmmod only after the six checks
\* before it are finished, and touches no device.  A module_unload
\* recorded PASS leaves the module unloaded to the end of the run.  In a
\* run in which every check succeeds the module is loaded from the end of
\* module_load until module_unload runs rmmod, the node is seen and the
\* device opened and closed in between, and the module is unloaded and no
\* handle open at the end.
DeviceOps == {"exists", "stat", "open", "read", "write", "close"}
TouchesDevice == \E i \in 1..Len(cur) : cur[i].op \in DeviceOps
C28_LifecycleOrder ==
    /\ TouchesDevice =>
          /\ idx \in 2..6
          /\ summary.total_tests = idx - 1
          /\ tests[1].name = TestNames[1]
          /\ OpsNamed("insmod") = <<>> /\ OpsNamed("rmmod") = <<>>
    /\ (idx = 7 /\ cur # <<>>) =>
          /\ cur[1].op = "rmmod"
          /\ summary.total_tests = NumTests - 1
          /\ Len(tests) >= NumTests - 1
          /\ handles = 0
    /\ (idx = 1 /\ cur # <<>>) => summary.total_tests = 0 /\ out[1] = Line(1, "start")
    /\ (pc \in {"ret", "loop", "done", "exit"} /\ idx >= NumTests
            /\ Len(tests) = NumTests /\ tests[NumTests] = UnloadPassRecord) =>
          ~modLoaded
    /\ (1 \in clean /\ (idx < NumTests \/ (idx = NumTests /\ cur = <<>>))) => modLoaded
    /\ (pc = "done" /\ clean = 1..NumTests) =>
          /\ ~modLoaded
          /\ handles = 0
          /\ \A i \in 1..NumTests : tests[i].status = "PASS"
C28_Witness ==
    /\ pc = "done"
    /\ clean = 1..NumTests
    /\ ~modLoaded

\* C29: calling run_all_tests again on the same tester does not start
\* from zero.  Each check of a call adds 1 to total_tests, so a call adds
\* 7; at the end of a call passed and failed grow by the numbers of PASS
\* and of other records now in the collection, on top of what they held,
\* while score becomes the sum of the scores now in the collection.  A
\* check step changes no record but the one under the check's own name or
\* its function's name, so a record an earlier call left under a name the
\* later call does not write stays where it is.
CheckStep == pc = "loop" /\ pc' = "loop"
SummaryStep == pc = "loop" /\ pc' = "done"
C29_SecondCallAccumulates ==
    [][/\ SummaryStep =>
            /\ tests' = tests
            /\ summary'.total_tests = NumTests * Calls
            /\ summary'.passed = summary.passed + CountOf({"PASS"})
            /\ summary'.failed = summary.failed + (Len(tests) - CountOf({"PASS"}))
            /\ summary'.score = SumSeq(Scores)
       /\ CheckStep =>
            /\ summary'.total_tests = summary.total_tests + 1
            /\ summary'.passed = summary.passed
            /\ summary'.score = summary.score
            /\ Len(tests') >= Len(tests)
            /\ \A i \in 1..Len(tests) :
                  /\ tests'[i].name = tests[i].name
                  /\ tests[i].name \notin {TestNames[idx], FuncNames[idx]}
                        => tests'[i] = tests[i]
      ]_vars
C29_Witness ==
    /\ pc = "done"
    /\ Calls = 2
    /\ summary.total_tests = 2 * NumTests
    /\ Len(tests) = NumTests + 1
    /\ tests[2].status = "PASS" /\ tests[NumTests + 1].status = "ERROR"
    /\ summary.passed + summary.failed = 2 * NumTests + 1
    /\ summary.passed > CountOf({"PASS"})
    /\ summary.score = SumSeq(Scores)

\* C24: the report turns the raw functional score into rubric points as
\* min(15, score / 17 * 15): the value lies between 0 and 15 points, does
\* not decrease when the raw score grows, is exactly 15 points for every
\* raw score of 17 or more; and it is 0 when there is no functional
\* result or the result has no summary.
Functional == report.results.functional
HasSummary == Functional # None /\ "summary" \in DOMAIN Functional
RawScore == Get(Functional.summary, "score", 0)
Rubric == report.scores.detailed_scores.functional_testing
WithScore(sc) == [report.results EXCEPT !.functional = [tests |-> <<>>, summary |-> [score |-> sc]]]
C24_ReportNormalizes ==
    pc = "report_done" =>
        /\ Rubric \in 0..(15 * Unit)
        /\ ~HasSummary => Rubric = 0
        /\ HasSummary =>
              /\ Rubric * 17 <= RawScore * 15 * Unit
              /\ RawScore < 17 => (Rubric + 1) * 17 > RawScore * 15 * Unit
              /\ RawScore >= 17 => Rubric = 15 * Unit
              /\ RawScore = 0 => Rubric = 0
              /\ Rubric <= functional_testing(WithScore(RawScore + 1))
        /\ report.scores.category_scores.correctness
              = report.scores.detailed_scores.compilation + Rubric
C24_Witness ==
    /\ pc = "report_done"
    /\ HasSummary
    /\ RawScore = 18
    /\ Rubric = 15 * Unit
    /\ report.scores.total_score = (15 + 15 + 10 + 20 + 8 + 3) * Unit

\* C30: analyze_file scores a file by three tables.  The compilation
\* score is 0 for status 'failed'; otherwise 15 for 'success' without
\* warnings, 10 for 'success' with 1..3 warnings, 5 for 4 or more warnings
\* or status 'warnings'; and always one of 0, 5, 10, 15.  The checkpatch
\* and clang-tidy scores are each one of 0, 1, 3, 5 and do not grow with
\* the count.  total_score is the sum of the three and lies in 0..25.
C30_ScoreTables ==
    pc = "analyzed" =>
        LET sc == analysis.scores
            st == CompStatus(analysis)
            w == CompWarnings(analysis)
        IN  /\ sc.compilation_score \in {0, 5, 10, 15}
            /\ st = "failed" => sc.compilation_score = 0
            /\ (st = "success" /\ w = 0) => sc.compilation_score = 15
            /\ (st = "success" /\ w \in 1..3) => sc.compilation_score = 10
            /\ (st # "failed" /\ (w >= 4 \/ st = "warnings")) => sc.compilation_score = 5
            /\ sc.checkpatch_score \in {0, 1, 3, 5}
            /\ sc.clang_tidy_score \in {0, 1, 3, 5}
            /\ sc.checkpatch_score >= calculate_checkpatch_score(Violations(analysis) + 1)
            /\ sc.clang_tidy_score >= calculate_clang_tidy_score(TidyWarnings(analysis) + 1)
            /\ Violations(analysis) = 0 => sc.checkpatch_score = 5
            /\ TidyWarnings(analysis) = 0 => sc.clang_tidy_score = 5
            /\ sc.static_analysis_score = sc.checkpatch_score + sc.clang_tidy_score
            /\ sc.total_score
                  = sc.compilation_score + sc.checkpatch_score + sc.clang_tidy_score
            /\ sc.total_score \in 0..25
C30_Witness ==
    /\ pc = "analyzed"
    /\ CompStatus(analysis) = "failed" /\ CompWarnings(analysis) = 4
    /\ Violations(analysis) = 4
    /\ TidyWarnings(analysis) = 3
    /\ analysis.scores.total_score = 2

====
